---------------------------- MODULE Spec2Model ----------------------------
(***************************************************************************)
(* Model of autotranslate/management/commands/translate_messages.py: the  *)
(* placeholder protection functions (humanize_placeholders,               *)
(* restore_placeholders, fix_translation), the per-file translation       *)
(* protocol (translate_file and its helpers) and the catalog walker       *)
(* (find_po_files).                                                        *)
(*                                                                         *)
(* A Python string is modelled as a sequence of one-character strings, so *)
(* that the regular expressions of the source are modelled by what they   *)
(* match, character by character.                                          *)
(***************************************************************************)
EXTENDS Integers, Sequences, FiniteSets

VARIABLES
    \* --- placeholder functions (one call of humanize / fix_translation) ---
    msgid,              \* the msgid argument
    translation,        \* the translation argument
    result,             \* what fix_translation did: [raised, value]
    fpc,                \* "start" | "humanized" | "done"
    \* --- Command.handle / translate_file ---
    skip_translated,    \* self.skip_translated
    set_fuzzy,          \* self.set_fuzzy
    disk,               \* the catalog stored at each path
    pc,                 \* position inside handle / translate_file
    cur,                \* index of the file handle's loop is at
    po,                 \* the POFile translate_file holds in memory
    strings,            \* result of get_strings_to_translate
    translated_strings, \* result of translate_strings
    upd,                \* what update_translations did (cursor, raised, ...)
    hist,               \* observations of the run: loads, calls, saves per file
    runs,               \* number of times the command was started
    \* --- find_po_files ---
    locale,             \* the --locale list
    exclude,            \* the --exclude list
    tree,               \* the .po and other files below the base directories
    basedirs,           \* the base directories find_po_files found
    locales,            \* the locales find_po_files settled on
    roots,              \* the directories os.walk has yet to start from
    stack,              \* the directories the running os.walk has yet to list
    filenames,          \* the files of dirpath the inner loop has yet to see
    yielded,            \* the files find_po_files has yielded
    changes,            \* the number of files created or deleted meanwhile
    wpc                 \* "start" | "walking" | "done" | "raised"

strvars  == <<msgid, translation, result, fpc>>
cmdvars  == <<skip_translated, set_fuzzy, disk, pc, cur, po, strings,
              translated_strings, upd, hist, runs>>
walkvars == <<locale, exclude, tree, basedirs, locales, roots, stack,
              filenames, yielded, changes, wpc>>
vars     == <<strvars, cmdvars, walkvars>>

---------------------------------------------------------------------------
(* Characters and character classes of Python's re module.                 *)

NL == "\n"

\* The characters the model tells apart: U+0001 .. U+00FF, the Greek sigmas
\* and U+1680.  The classes below are those of Python 3, where the patterns
\* are str patterns and \s, \w and str.lower() follow Unicode.

\* \s : the whitespace characters (tab, newline, vertical tab, form feed,
\* carriage return, U+001C .. U+001F, space, U+0085, U+00A0, U+1680)
Whitespace ==
    {" ", "\t", "\n", "\r", "\f", "", "", "", "", "",
     "", " ", " "}

\* the letters str.lower() changes, and what it makes of each of them
UpperCase == <<"A","B","C","D","E","F","G","H","I","J","K","L","M",
               "N","O","P","Q","R","S","T","U","V","W","X","Y","Z",
               "À","Á","Â","Ã","Ä","Å","Æ","Ç","È","É","Ê","Ë","Ì",
               "Í","Î","Ï","Ð","Ñ","Ò","Ó","Ô","Õ","Ö","Ø","Ù","Ú",
               "Û","Ü","Ý","Þ","Σ">>
LowerCase == <<"a","b","c","d","e","f","g","h","i","j","k","l","m",
               "n","o","p","q","r","s","t","u","v","w","x","y","z",
               "à","á","â","ã","ä","å","æ","ç","è","é","ê","ë","ì",
               "í","î","ï","ð","ñ","ò","ó","ô","õ","ö","ø","ù","ú",
               "û","ü","ý","þ","σ">>

\* the letters that have no other case, or are the lower case of a letter
\* outside the characters above
OtherLetters == {"ª","µ","º","ß","ÿ","ς"}

\* the decimal digits and the characters that are numeric without being
\* decimal digits
Digits == {"0","1","2","3","4","5","6","7","8","9"}
OtherNumerics == {"²","³","¹","¼","½","¾"}

Range(f) == {f[i] : i \in DOMAIN f}

\* \w : what str.isalnum() accepts, and the underscore
WordChars ==
    Range(UpperCase) \cup Range(LowerCase) \cup OtherLetters
        \cup Digits \cup OtherNumerics \cup {"_"}

\* the characters with the Unicode property Cased
Cased == Range(UpperCase) \cup Range(LowerCase) \cup OtherLetters

\* the characters with the Unicode property Case_Ignorable (but for the
\* grave accent, which no string of the model holds)
CaseIgnorable == {"'",".",":","^","¨","­","¯","´","·","¸"}

\* str.lower() of a string of one character
LowerChar(c) ==
    IF \E i \in DOMAIN UpperCase : UpperCase[i] = c
    THEN LowerCase[CHOOSE i \in DOMAIN UpperCase : UpperCase[i] = c]
    ELSE c

\* the character before index i (dir = -1) or after it (dir = 1) that is
\* not case-ignorable is a cased one
RECURSIVE CasedNeighbour(_, _, _)
CasedNeighbour(s, i, dir) ==
    LET j == i + dir
    IN  IF j < 1 \/ j > Len(s) THEN FALSE
        ELSE IF s[j] \in CaseIgnorable THEN CasedNeighbour(s, j, dir)
        ELSE s[j] \in Cased

\* The capital sigma at index i is a final one: a cased character comes
\* before it and none after it, case-ignorable characters skipped.
FinalSigma(s, i) == CasedNeighbour(s, i, -1) /\ ~CasedNeighbour(s, i, 1)

\* str.lower(): character by character, but for the capital sigma, which
\* becomes the final sigma at the end of a word
Lower(s) ==
    [i \in DOMAIN s |->
        IF s[i] = "Σ" /\ FinalSigma(s, i) THEN "ς" ELSE LowerChar(s[i])]

\* s[i:j] with 1-based inclusive bounds; empty when j < i
Slice(s, i, j) == IF j < i THEN <<>> ELSE SubSeq(s, i, j)

\* msgid.startswith('\n')
StartsWithNL(s) == Len(s) > 0 /\ s[1] = NL

\* msgid.endswith('\n')
EndsWithNL(s) == Len(s) > 0 /\ s[Len(s)] = NL

\* length of the longest run of whitespace starting at index i: (\s*)
RECURSIVE WsRun(_, _)
WsRun(s, i) ==
    IF i <= Len(s) /\ s[i] \in Whitespace THEN 1 + WsRun(s, i + 1) ELSE 0

\* length of the longest run of word characters starting at index i: \w+
RECURSIVE WordRun(_, _)
WordRun(s, i) ==
    IF i <= Len(s) /\ s[i] \in WordChars THEN 1 + WordRun(s, i + 1) ELSE 0

\* Length of the match of  %(?:\((\w+)\))?([sd])  at index i, 0 when there
\* is none.  \w+ is followed by ")" which is no word character, so the
\* group matches only with the whole run of word characters.
PlaceholderLen(s, i) ==
    IF i > Len(s) \/ s[i] # "%" THEN 0
    ELSE LET w == IF i + 1 <= Len(s) /\ s[i + 1] = "("
                  THEN WordRun(s, i + 2) ELSE 0
             j == i + 2 + w
         IN  IF w > 0 /\ j + 1 <= Len(s) /\ s[j] = ")" /\ s[j + 1] \in {"s", "d"}
             THEN w + 4
             ELSE IF i + 1 <= Len(s) /\ s[i + 1] \in {"s", "d"} THEN 2 ELSE 0

\* The replacement the lambda of humanize_placeholders builds for the
\* placeholder of length n at index i.
HumanToken(s, i, n) ==
    LET word == IF n > 2 THEN Lower(SubSeq(s, i + 2, i + n - 3))
                ELSE IF s[i + 1] = "d" THEN <<"n","u","m","b","e","r">>
                ELSE <<"i","t","e","m">>
    IN  <<"_", "_">> \o word \o <<"_", "_">>

\* re.sub over msgid from index i on
RECURSIVE HumanizeFrom(_, _)
HumanizeFrom(s, i) ==
    IF i > Len(s) THEN <<>>
    ELSE LET n == PlaceholderLen(s, i)
         IN  IF n = 0 THEN <<s[i]>> \o HumanizeFrom(s, i + 1)
             ELSE HumanToken(s, i, n) \o HumanizeFrom(s, i + n)

humanize_placeholders(m) == HumanizeFrom(m, 1)

\* Index of the last character of the match of  __[\w]+?__  whose closing
\* "__" starts at p or later, 0 when there is none.  The lazy +? stops at
\* the first closing "__"; every character before it must be a word
\* character.
RECURSIVE TokenClose(_, _)
TokenClose(s, p) ==
    IF p + 1 > Len(s) \/ s[p - 1] \notin WordChars THEN 0
    ELSE IF s[p] = "_" /\ s[p + 1] = "_" THEN p + 1
    ELSE TokenClose(s, p + 1)

\* Index of the last character of the match of  __[\w]+?__  at index j, 0
\* when there is none.
TokenEnd(s, j) ==
    IF j + 4 <= Len(s) /\ s[j] = "_" /\ s[j + 1] = "_"
    THEN TokenClose(s, j + 3) ELSE 0

\* The leftmost match of  (\s*)(%(?:\(\w+\))?[sd])(\s*)  starting at index
\* i or later: [found, start, pre, ph, post, end].
RECURSIVE NextPlaceholder(_, _)
NextPlaceholder(s, i) ==
    IF i > Len(s) THEN [found |-> FALSE]
    ELSE LET a == WsRun(s, i)
             n == PlaceholderLen(s, i + a)
             b == WsRun(s, i + a + n)
         IN  IF n = 0 THEN NextPlaceholder(s, i + 1)
             ELSE [found |-> TRUE, start |-> i,
                   pre  |-> Slice(s, i, i + a - 1),
                   ph   |-> Slice(s, i + a, i + a + n - 1),
                   post |-> Slice(s, i + a + n, i + a + n + b - 1),
                   end  |-> i + a + n + b - 1]

\* re.findall(r'(\s*)(%(?:\(\w+\))?[sd])(\s*)', msgid) from index i on
RECURSIVE FindallFrom(_, _)
FindallFrom(s, i) ==
    LET m == NextPlaceholder(s, i)
    IN  IF ~m.found THEN <<>>
        ELSE <<[pre |-> m.pre, ph |-> m.ph, post |-> m.post]>>
             \o FindallFrom(s, m.end + 1)

findall_placeholders(m) == FindallFrom(m, 1)

\* The leftmost match of  (\s*)(__[\w]+?__)(\s*)  starting at index i or
\* later: [found, start, end].
RECURSIVE NextToken(_, _)
NextToken(s, i) ==
    IF i > Len(s) THEN [found |-> FALSE]
    ELSE LET a == WsRun(s, i)
             e == TokenEnd(s, i + a)
         IN  IF e = 0 THEN NextToken(s, i + 1)
             ELSE [found |-> TRUE, start |-> i, end |-> e + WsRun(s, e + 1)]

\* re.sub of restore_placeholders over the translation from index i on,
\* with the list placehoders as the lambda left it.  The lambda reads
\* placehoders[0] and pops it: an empty list raises IndexError.
RECURSIVE RestoreFrom(_, _, _)
RestoreFrom(t, i, placehoders) ==
    LET m == NextToken(t, i)
    IN  IF ~m.found THEN [raised |-> FALSE, value |-> Slice(t, i, Len(t))]
        ELSE IF placehoders = <<>> THEN [raised |-> TRUE, value |-> <<>>]
        ELSE LET rest == RestoreFrom(t, m.end + 1, Tail(placehoders))
                 p    == Head(placehoders)
             IN  IF rest.raised THEN rest
                 ELSE [raised |-> FALSE,
                       value  |-> Slice(t, i, m.start - 1)
                                  \o p.pre \o p.ph \o p.post \o rest.value]

\* A faulty restore: the lambda never pops, every token gets placehoders[0].
RECURSIVE RestoreNoPopFrom(_, _, _)
RestoreNoPopFrom(t, i, placehoders) ==
    LET m == NextToken(t, i)
    IN  IF ~m.found THEN [raised |-> FALSE, value |-> Slice(t, i, Len(t))]
        ELSE IF placehoders = <<>> THEN [raised |-> TRUE, value |-> <<>>]
        ELSE LET rest == RestoreNoPopFrom(t, m.end + 1, placehoders)
                 p    == Head(placehoders)
             IN  [raised |-> FALSE,
                  value  |-> Slice(t, i, m.start - 1)
                             \o p.pre \o p.ph \o p.post \o rest.value]

restore_placeholders_nopop(m, t) ==
    RestoreNoPopFrom(t, 1, findall_placeholders(m))

restore_placeholders(m, t) == RestoreFrom(t, 1, findall_placeholders(m))

\* The two newline fixes of fix_translation
add_newlines(m, t) ==
    LET t1 == IF StartsWithNL(m) /\ ~StartsWithNL(t) THEN <<NL>> \o t ELSE t
    IN  IF EndsWithNL(m) /\ ~EndsWithNL(t1) THEN t1 \o <<NL>> ELSE t1

fix_translation(m, t) == restore_placeholders(m, add_newlines(m, t))

---------------------------------------------------------------------------
(* Catalog entries (polib.POEntry) and the methods of Command that work   *)
(* on them.                                                                *)

\* 'fuzzy' in entry.flags
IsFuzzy(entry) == \E k \in DOMAIN entry.flags : entry.flags[k] = "fuzzy"

\* entry.translated(), as polib computes it: an obsolete or fuzzy entry is
\* not translated; otherwise a non-empty msgstr, or a msgstr_plural with
\* no empty form, makes the entry translated.
translated(entry) ==
    IF entry.obsolete \/ IsFuzzy(entry) THEN FALSE
    ELSE IF entry.msgstr # <<>> THEN TRUE
    ELSE IF DOMAIN entry.msgstr_plural # {}
         THEN \A k \in DOMAIN entry.msgstr_plural : entry.msgstr_plural[k] # <<>>
         ELSE FALSE

\* Command.need_translate, with self.skip_translated as a parameter
need_translate(skip, entry) ==
    ~skip \/ ~translated(entry) \/ ~entry.obsolete

\* the for loop of get_strings_to_translate from entry i on
RECURSIVE StringsFrom(_, _, _)
StringsFrom(skip, entries, i) ==
    IF i > Len(entries) THEN <<>>
    ELSE LET entry == entries[i]
         IN  IF ~need_translate(skip, entry)
             THEN StringsFrom(skip, entries, i + 1)
             ELSE <<humanize_placeholders(entry.msgid)>>
                  \o (IF entry.msgid_plural # <<>>
                      THEN <<humanize_placeholders(entry.msgid_plural)>>
                      ELSE <<>>)
                  \o StringsFrom(skip, entries, i + 1)

\* A faulty extraction: the plural string is put before the singular one.
RECURSIVE StringsPluralFirstFrom(_, _, _)
StringsPluralFirstFrom(skip, entries, i) ==
    IF i > Len(entries) THEN <<>>
    ELSE LET entry == entries[i]
         IN  IF ~need_translate(skip, entry)
             THEN StringsPluralFirstFrom(skip, entries, i + 1)
             ELSE (IF entry.msgid_plural # <<>>
                   THEN <<humanize_placeholders(entry.msgid_plural)>>
                   ELSE <<>>)
                  \o <<humanize_placeholders(entry.msgid)>>
                  \o StringsPluralFirstFrom(skip, entries, i + 1)

get_strings_plural_first(skip, entries) ==
    StringsPluralFirstFrom(skip, entries, 1)

\* Command.get_strings_to_translate
get_strings_to_translate(skip, entries) == StringsFrom(skip, entries, 1)

\* entry.msgstr_plural[0] = t
SetFirstForm(msgstr_plural, t) ==
    [k \in DOMAIN msgstr_plural \cup {0} |->
        IF k = 0 THEN t ELSE msgstr_plural[k]]

\* for k, v in entry.msgstr_plural.items(): if k != 0: ...[k] = t
SetOtherForms(msgstr_plural, t) ==
    [k \in DOMAIN msgstr_plural |-> IF k # 0 THEN t ELSE msgstr_plural[k]]

\* A faulty flagging: appends 'fuzzy' without looking at the flags.
AddFuzzyAlways(fuzzy, entry) ==
    IF fuzzy THEN [entry EXCEPT !.flags = Append(@, "fuzzy")] ELSE entry

\* if self.set_fuzzy and 'fuzzy' not in entry.flags: entry.flags.append('fuzzy')
AddFuzzy(fuzzy, entry) ==
    IF fuzzy /\ ~IsFuzzy(entry)
    THEN [entry EXCEPT !.flags = Append(@, "fuzzy")]
    ELSE entry

\* What update_translations has done when it stops: the entries as it left
\* them, the number of translations next() handed out (cursor), the
\* exception that ended it ("none" when it returned), the number of
\* entries whose iteration ran to its end (completed), and for each entry
\* reached the value of the cursor when its iteration began (first).
Stopped(entries, cursor, exc, completed, first) ==
    [entries |-> entries, cursor |-> cursor, exc |-> exc,
     completed |-> completed, first |-> first]

\* A faulty plural branch: the second translation is stored in form 0 too.
PluralBranchAllForms(entry, f1, f2) ==
    [entry EXCEPT !.msgstr_plural =
        [k \in DOMAIN entry.msgstr_plural \cup {0} |-> f2]]

\* the plural branch of update_translations, both translations fixed
PluralBranch(entry, f1, f2) ==
    [entry EXCEPT !.msgstr_plural = SetOtherForms(SetFirstForm(@, f1), f2)]

\* the for loop of update_translations from entry i on, c translations
\* consumed so far
RECURSIVE UpdateFrom(_, _, _, _, _, _)
UpdateFrom(skip, fuzzy, entries, ts, i, c) ==
    IF i > Len(entries) THEN Stopped(entries, c, "none", Len(entries), <<>>)
    ELSE
    LET entry == entries[i]
        Raise(e, cursor, exc) ==
            Stopped([entries EXCEPT ![i] = e], cursor, exc, i - 1, <<c>>)
        Continue(e, cursor) ==
            LET r == UpdateFrom(skip, fuzzy, [entries EXCEPT ![i] = e], ts,
                                i + 1, cursor)
            IN  [r EXCEPT !.first = <<c>> \o @]
    IN
    IF ~need_translate(skip, entry) THEN Continue(entry, c)
    ELSE IF entry.msgid_plural # <<>> THEN
        IF c + 1 > Len(ts) THEN Raise(entry, c, "StopIteration")
        ELSE
        LET f1 == fix_translation(entry.msgid, ts[c + 1])
            e1 == [entry EXCEPT !.msgstr_plural = SetFirstForm(@, f1.value)]
            c2 == c + 2
        IN  IF f1.raised THEN Raise(entry, c + 1, "IndexError")
            ELSE IF c2 > Len(ts) THEN Raise(e1, c + 1, "StopIteration")
            ELSE
            LET f2 == fix_translation(entry.msgid_plural, ts[c2])
            IN  IF f2.raised THEN Raise(e1, c2, "IndexError")
                ELSE Continue(
                         AddFuzzy(fuzzy, PluralBranch(entry, f1.value, f2.value)),
                         c2)
    ELSE
        IF c + 1 > Len(ts) THEN Raise(entry, c, "StopIteration")
        ELSE
        LET f == fix_translation(entry.msgid, ts[c + 1])
        IN  IF f.raised THEN Raise(entry, c + 1, "IndexError")
            ELSE Continue(AddFuzzy(fuzzy, [entry EXCEPT !.msgstr = f.value]),
                          c + 1)

\* Command.update_translations
update_translations(skip, fuzzy, entries, ts) ==
    UpdateFrom(skip, fuzzy, entries, ts, 1, 0)

---------------------------------------------------------------------------
(* Inputs of the placeholder functions: strings built from a few pieces.   *)

\* the longest msgid, in pieces, of the round-trip runs
MaxRoundTripPieces == 3
\* the longest msgid, in pieces, of the fix_translation runs
MaxMsgidPieces == 3
\* the longest translation, in pieces, of the fix_translation runs
MaxTranslationPieces == 3

RECURSIVE Built(_, _)
Built(pieces, n) ==
    IF n = 0 THEN {<<>>}
    ELSE LET shorter == Built(pieces, n - 1)
         IN  shorter \cup {s \o p : s \in shorter, p \in pieces}

\* the no-break space U+00A0, a whitespace character outside ASCII
NBSP == " "

\* literal text (letters, underscores, whitespace, newlines) and the
\* placeholder forms, one of them with a name outside ASCII
RoundTripPieces ==
    { <<"a">>, <<"_">>, <<" ">>, <<NBSP>>, <<NL>>, <<"%","s">>, <<"%","d">>,
      <<"%","(","n",")","s">>, <<"%","(","N","_",")","d">>,
      <<"%","(","É","Σ",")","s">> }

MsgidPieces ==
    { <<"a">>, <<" ">>, <<NL>>, <<"%","s">>, <<"%","(","n",")","d">> }

\* what a backend returns: text, whitespace of its own, tokens
TranslationPieces ==
    { <<"x">>, <<NBSP>>, <<NL>>, <<"_","_","n","_","_">>,
      <<"_","_","é","_","_">> }

NoResult == [raised |-> FALSE, value |-> <<>>]

StrIdle ==
    /\ msgid = <<>>
    /\ translation = <<>>
    /\ result = NoResult
    /\ fpc = "idle"

\* the number of catalog files find_po_files yields to handle
NumFiles == 2
\* the longest catalog, in entries
MaxEntries == 3
\* the number of times the command is run
MaxRuns == 2

Files == 1 .. NumFiles

Str_a_s  == <<"a", " ", "%", "s">>
Str_d_b  == <<"%", "d", " ", "b">>
Str_d_bs == <<"%", "d", " ", "b", "s">>
Str_c    == <<"c", NL>>
Str_nl_d == <<NL, "%", "(", "n", ")", "s">>
Str_e    == <<"e">>
Str_old  == <<"o", "l", "d">>

NoForms == <<>>

\* entries as polib parses them: untranslated, plural with three forms,
\* translated, fuzzy, obsolete
SampleEntries ==
    << [msgid |-> Str_a_s, msgid_plural |-> <<>>, msgstr |-> <<>>,
        msgstr_plural |-> NoForms, flags |-> <<>>, obsolete |-> FALSE],
       [msgid |-> Str_d_b, msgid_plural |-> Str_d_bs, msgstr |-> <<>>,
        msgstr_plural |-> [k \in {0, 1, 2} |-> <<>>],
        flags |-> <<"python-format">>, obsolete |-> FALSE],
       [msgid |-> Str_c, msgid_plural |-> <<>>, msgstr |-> Str_old,
        msgstr_plural |-> NoForms, flags |-> <<>>, obsolete |-> FALSE],
       [msgid |-> Str_nl_d, msgid_plural |-> <<>>, msgstr |-> Str_old,
        msgstr_plural |-> NoForms, flags |-> <<"fuzzy">>, obsolete |-> FALSE],
       [msgid |-> Str_e, msgid_plural |-> <<>>, msgstr |-> Str_old,
        msgstr_plural |-> NoForms, flags |-> <<>>, obsolete |-> TRUE] >>

\* the catalogs a file may hold: runs of consecutive sample entries
Catalogs ==
    { c \in {<<>>} \cup { SubSeq(SampleEntries, i, j) :
                            i \in 1 .. Len(SampleEntries),
                            j \in 1 .. Len(SampleEntries) } :
        Len(c) <= MaxEntries }

DigitOf(i) == <<"0","1","2","3","4","5","6","7","8","9">>[(i % 10) + 1]

\* What the backend makes of the i-th string: the text it was sent, tokens
\* included, followed by a word that tells the positions apart.
TranslatedAt(sent, i) == sent[i] \o <<" ", "t", DigitOf(i)>>

\* the same with one token more than the string sent had
WithExtraToken(t) == t \o <<" ", "_", "_", "x", "_", "_">>

\* The lists translate_strings may return for the strings sent: every
\* string translated, at most one of them (k) with a token too many, and
\* the list as long as the one sent, one shorter or one longer.
BackendLists(sent) ==
    LET base(k) == [i \in 1 .. Len(sent) |->
                       IF i = k THEN WithExtraToken(TranslatedAt(sent, i))
                       ELSE TranslatedAt(sent, i)]
    IN  UNION { { base(k),
                  base(k) \o <<<<"z">>>>,
                  Slice(base(k), 1, Len(sent) - 1) } : k \in 0 .. Len(sent) }

NoUpdate == Stopped(<<>>, 0, "none", 0, <<>>)

\* What an observer of one run of the command has seen: how often each file
\* was loaded, sent to the backend, updated and saved, the catalog the
\* current file held when it was loaded (atload), the files as they were
\* when this run began (atrun) and when the first run began (atstart), and
\* the step that raised ("none", "backend" or "update").
NewHist(d0, d) ==
    [loads |-> [f \in Files |-> 0], calls |-> [f \in Files |-> 0],
     updates |-> [f \in Files |-> 0], saves |-> [f \in Files |-> 0],
     atload |-> <<>>, atrun |-> d, atstart |-> d0, failed |-> "none"]

CmdIdle ==
    /\ skip_translated = FALSE
    /\ set_fuzzy = FALSE
    /\ disk = <<>>
    /\ pc = "idle"
    /\ cur = 0
    /\ po = <<>>
    /\ strings = <<>>
    /\ translated_strings = <<>>
    /\ upd = NoUpdate
    /\ hist = <<>>
    /\ runs = 0

WalkIdle ==
    /\ locale = {}
    /\ exclude = {}
    /\ tree = {}
    /\ basedirs = {}
    /\ locales = {}
    /\ roots = <<>>
    /\ stack = <<>>
    /\ filenames = <<>>
    /\ yielded = {}
    /\ changes = 0
    /\ wpc = "idle"

\* get_strings_to_translate's call of humanize_placeholders on one msgid
Humanize ==
    /\ fpc = "start"
    /\ translation' = humanize_placeholders(msgid)
    /\ fpc' = "humanized"
    /\ UNCHANGED <<msgid, result, cmdvars, walkvars>>

\* a backend that returns the string it was sent
BackendEcho ==
    /\ fpc = "humanized"
    /\ fpc' = "translated"
    /\ UNCHANGED <<msgid, translation, result, cmdvars, walkvars>>

\* a backend that returns some other text
BackendTranslate ==
    /\ fpc = "humanized"
    /\ \E t \in Built(TranslationPieces, MaxTranslationPieces) :
           translation' = t
    /\ fpc' = "translated"
    /\ UNCHANGED <<msgid, result, cmdvars, walkvars>>

\* update_translations' call of fix_translation
Fix ==
    /\ fpc = "translated"
    /\ result' = fix_translation(msgid, translation)
    /\ fpc' = "done"
    /\ UNCHANGED <<msgid, translation, cmdvars, walkvars>>

RoundTripInit ==
    /\ msgid \in Built(RoundTripPieces, MaxRoundTripPieces)
    /\ translation = <<>>
    /\ result = NoResult
    /\ fpc = "start"
    /\ CmdIdle
    /\ WalkIdle

RoundTripNext == Humanize \/ BackendEcho \/ Fix

SpecRoundTrip == RoundTripInit /\ [][RoundTripNext]_vars

FixInit ==
    /\ msgid \in Built(MsgidPieces, MaxMsgidPieces)
    /\ translation = <<>>
    /\ result = NoResult
    /\ fpc = "start"
    /\ CmdIdle
    /\ WalkIdle

FixNext == Humanize \/ BackendTranslate \/ Fix

SpecFix == FixInit /\ [][FixNext]_vars

---------------------------------------------------------------------------
(* Command.handle: one catalog file after the other through               *)
(* translate_file.                                                         *)

\* The command starts: set_options has stored the options and the loop of
\* handle has not taken a file yet.
Init ==
    /\ skip_translated \in BOOLEAN
    /\ set_fuzzy \in BOOLEAN
    /\ \E c \in Catalogs : disk = [f \in Files |-> c]
    /\ pc = "loop"
    /\ cur = 0
    /\ po = <<>>
    /\ strings = <<>>
    /\ translated_strings = <<>>
    /\ upd = NoUpdate
    /\ hist = NewHist(disk, disk)
    /\ runs = 1
    /\ StrIdle
    /\ WalkIdle

\* handle takes the next file; translate_file loads it: polib.pofile(filepath)
Load ==
    /\ pc = "loop"
    /\ cur < NumFiles
    /\ cur' = cur + 1
    /\ po' = disk[cur + 1]
    /\ strings' = <<>>
    /\ translated_strings' = <<>>
    /\ upd' = NoUpdate
    /\ hist' = [hist EXCEPT !.loads[cur + 1] = @ + 1, !.atload = disk[cur + 1]]
    /\ pc' = "loaded"
    /\ UNCHANGED <<skip_translated, set_fuzzy, disk, runs, strvars, walkvars>>

\* strings = self.get_strings_to_translate(po)
Extract ==
    /\ pc = "loaded"
    /\ strings' = get_strings_to_translate(skip_translated, po)
    /\ pc' = "extracted"
    /\ UNCHANGED <<skip_translated, set_fuzzy, disk, cur, po,
                   translated_strings, upd, hist, runs, strvars, walkvars>>

\* translate_strings(strings, target_language, 'en', False) returns a list
BackendReturn ==
    /\ pc = "extracted"
    /\ \E ts \in BackendLists(strings) : translated_strings' = ts
    /\ hist' = [hist EXCEPT !.calls[cur] = @ + 1]
    /\ pc' = "translated"
    /\ UNCHANGED <<skip_translated, set_fuzzy, disk, cur, po, strings, upd,
                   runs, strvars, walkvars>>

\* translate_strings raises: the exception leaves translate_file and handle
BackendRaise ==
    /\ pc = "extracted"
    /\ hist' = [hist EXCEPT !.calls[cur] = @ + 1, !.failed = "backend"]
    /\ pc' = "raised"
    /\ UNCHANGED <<skip_translated, set_fuzzy, disk, cur, po, strings,
                   translated_strings, upd, runs, strvars, walkvars>>

\* self.update_translations(po, translated_strings); an exception of next()
\* or of fix_translation leaves translate_file and handle
Update ==
    /\ pc = "translated"
    /\ LET u == update_translations(skip_translated, set_fuzzy, po,
                                    translated_strings)
       IN  /\ upd' = u
           /\ po' = u.entries
           /\ hist' = [hist EXCEPT !.updates[cur] = @ + 1,
                         !.failed = IF u.exc = "none" THEN @ ELSE "update"]
           /\ pc' = IF u.exc = "none" THEN "updated" ELSE "raised"
    /\ UNCHANGED <<skip_translated, set_fuzzy, disk, cur, strings,
                   translated_strings, runs, strvars, walkvars>>

\* A faulty translate_file: the catalog is saved in a finally clause, also
\* after the backend or update_translations raised.
SaveAlways ==
    /\ pc \in {"updated", "raised"}
    /\ disk' = [disk EXCEPT ![cur] = po]
    /\ hist' = [hist EXCEPT !.saves[cur] = @ + 1]
    /\ pc' = IF pc = "raised" THEN "aborted" ELSE "loop"
    /\ UNCHANGED <<skip_translated, set_fuzzy, cur, po, strings,
                   translated_strings, upd, runs, strvars, walkvars>>

\* po.save(), and translate_file returns to the loop of handle
Save ==
    /\ pc = "updated"
    /\ disk' = [disk EXCEPT ![cur] = po]
    /\ hist' = [hist EXCEPT !.saves[cur] = @ + 1]
    /\ pc' = "loop"
    /\ UNCHANGED <<skip_translated, set_fuzzy, cur, po, strings,
                   translated_strings, upd, runs, strvars, walkvars>>

\* find_po_files is exhausted: handle returns
Finish ==
    /\ pc = "loop"
    /\ cur = NumFiles
    /\ pc' = "done"
    /\ UNCHANGED <<skip_translated, set_fuzzy, disk, cur, po, strings,
                   translated_strings, upd, hist, runs, strvars, walkvars>>

\* the command is run again, with the same options, on the files as the
\* run before left them
Rerun ==
    /\ pc = "done"
    /\ runs < MaxRuns
    /\ runs' = runs + 1
    /\ pc' = "loop"
    /\ cur' = 0
    /\ po' = <<>>
    /\ strings' = <<>>
    /\ translated_strings' = <<>>
    /\ upd' = NoUpdate
    /\ hist' = NewHist(hist.atstart, disk)
    /\ UNCHANGED <<skip_translated, set_fuzzy, disk, strvars, walkvars>>

Next ==
    \/ Load
    \/ Extract
    \/ BackendReturn
    \/ BackendRaise
    \/ Update
    \/ Save
    \/ Finish
    \/ Rerun

Spec == Init /\ [][Next]_vars

---------------------------------------------------------------------------
(* Command.find_po_files, a generator: it runs when the loop of handle    *)
(* asks for the next file and is suspended at each yield while handle     *)
(* runs translate_file.  A file is [base, dir, ext]: the base locale      *)
(* directory it lies under (as os.path.abspath names it), the directories *)
(* from there down to the file, and what follows the last dot of its      *)
(* name.  A directory is [base, dir]; it exists when a file lies under    *)
(* it.  The options locale and exclude are used only through their truth  *)
(* value and set(), so they are sets here.  Sets are iterated, and        *)
(* directories listed, in any order.                                       *)

\* the most files in the tree when the command starts
MaxTreeFiles == 2
\* the most files created or deleted while find_po_files is running
MaxTreeChanges == 1

LocaleCodes == {"fr", "de"}

BaseDirs == {"/proj/locale", "/proj/conf/locale"}

TreeDirs ==
    {<<>>} \cup { <<l>> : l \in LocaleCodes }
           \cup { <<l, "LC_MESSAGES">> : l \in LocaleCodes }
           \cup { <<l, "LC_MESSAGES", "sub">> : l \in LocaleCodes }

TreeFiles ==
    { [base |-> b, dir |-> d, ext |-> e] :
        b \in BaseDirs, d \in TreeDirs, e \in {"po", "txt"} }

\* the trees of at most n files
RECURSIVE Trees(_)
Trees(n) ==
    IF n = 0 THEN {{}}
    ELSE LET smaller == Trees(n - 1)
         IN  smaller \cup { t \cup {f} : t \in smaller, f \in TreeFiles }

\* the orders in which the elements of a set may come
Orders(S) ==
    { s \in [1 .. Cardinality(S) -> S] :
        \A i, j \in DOMAIN s : s[i] = s[j] => i = j }

\* filename.endswith('.po')
EndsWithPo(f) == f.ext = "po"

\* basedirs = set(map(os.path.abspath, filter(os.path.isdir, basedirs)))
ExistingBaseDirs(t) == { f.base : f \in t }

\* all_locales: the directories directly below a base directory
AllLocales(t) == { f.dir[1] : f \in { g \in t : Len(g.dir) >= 1 } }

\* locales = locale or all_locales;  locales = set(locales) - set(exclude)
Locales(loc, exc, t) == (IF loc # {} THEN loc ELSE AllLocales(t)) \ exc

\* dirs, for one basedir, with the locales in the order ls
Dirs(basedir, ls) ==
    IF ls # <<>>
    THEN [i \in DOMAIN ls |->
             [base |-> basedir, dir |-> <<ls[i], "LC_MESSAGES">>]]
    ELSE <<[base |-> basedir, dir |-> <<>>]>>

\* the directories the calls of os.walk(ldir) start from, one after the
\* other, with the basedirs in the order bs
RECURSIVE Roots(_, _)
Roots(bs, ls) ==
    IF bs = <<>> THEN <<>> ELSE Dirs(Head(bs), ls) \o Roots(Tail(bs), ls)

\* filenames: the files os.walk finds in directory d of tree t
FilesIn(t, d) == { f \in t : f.base = d.base /\ f.dir = d.dir }

\* directory p lies above directory q
IsAbove(p, q) == Len(p) < Len(q) /\ SubSeq(q, 1, Len(p)) = p

\* dirnames: the directories os.walk finds in directory d of tree t
SubDirs(t, d) ==
    { [base |-> d.base, dir |-> SubSeq(f.dir, 1, Len(d.dir) + 1)] :
        f \in { g \in t : g.base = d.base /\ IsAbove(d.dir, g.dir) } }

\* The first next(): find_po_files runs from its first line to the last
\* loop.  basedirs and locales are computed from the tree as it is now.
FindPoFilesStart ==
    /\ wpc = "start"
    /\ ExistingBaseDirs(tree) # {}
    /\ basedirs' = ExistingBaseDirs(tree)
    /\ locales' = Locales(locale, exclude, tree)
    /\ \E bs \in Orders(ExistingBaseDirs(tree)) :
         \E ls \in Orders(Locales(locale, exclude, tree)) :
           roots' = Roots(bs, ls)
    /\ stack' = <<>>
    /\ filenames' = <<>>
    /\ wpc' = "walking"
    /\ UNCHANGED <<locale, exclude, tree, yielded, changes, strvars, cmdvars>>

\* if not basedirs: raise CommandError(...)
FindPoFilesRaise ==
    /\ wpc = "start"
    /\ ExistingBaseDirs(tree) = {}
    /\ wpc' = "raised"
    /\ UNCHANGED <<locale, exclude, tree, yielded, basedirs, locales, roots,
                   stack, filenames, changes, strvars, cmdvars>>

\* os.walk goes on: it lists the next directory, one found below the
\* directory listed before or else the next ldir, from the tree as it is
\* now.  A directory that does not exist gives nothing.
WalkDir ==
    /\ wpc = "walking"
    /\ filenames = <<>>
    /\ stack # <<>> \/ roots # <<>>
    /\ LET dirpath == IF stack # <<>> THEN Head(stack) ELSE Head(roots)
           rest    == IF stack # <<>> THEN Tail(stack) ELSE <<>>
       IN  /\ roots' = IF stack # <<>> THEN roots ELSE Tail(roots)
           /\ \E fs \in Orders(FilesIn(tree, dirpath)) : filenames' = fs
           /\ \E ds \in Orders(SubDirs(tree, dirpath)) : stack' = ds \o rest
    /\ UNCHANGED <<locale, exclude, tree, yielded, basedirs, locales, wpc,
                   changes, strvars, cmdvars>>

\* yield (dirpath, filename): the generator hands a file to the loop of
\* handle and is suspended while translate_file works on it
YieldFile ==
    /\ wpc = "walking"
    /\ filenames # <<>>
    /\ EndsWithPo(Head(filenames))
    /\ yielded' = yielded \cup {Head(filenames)}
    /\ filenames' = Tail(filenames)
    /\ UNCHANGED <<locale, exclude, tree, basedirs, locales, roots, stack,
                   wpc, changes, strvars, cmdvars>>

\* if filename.endswith('.po') is false: the next filename
SkipFile ==
    /\ wpc = "walking"
    /\ filenames # <<>>
    /\ ~EndsWithPo(Head(filenames))
    /\ filenames' = Tail(filenames)
    /\ UNCHANGED <<locale, exclude, tree, yielded, basedirs, locales, roots,
                   stack, wpc, changes, strvars, cmdvars>>

\* the loops are over: the generator returns and the loop of handle ends
FindPoFilesReturn ==
    /\ wpc = "walking"
    /\ filenames = <<>>
    /\ stack = <<>>
    /\ roots = <<>>
    /\ wpc' = "done"
    /\ UNCHANGED <<locale, exclude, tree, yielded, basedirs, locales, roots,
                   stack, filenames, changes, strvars, cmdvars>>

\* While the generator is between two of its steps, suspended at a yield
\* or not, a file is created or deleted below the base directories.
TreeChange ==
    /\ wpc = "walking"
    /\ changes < MaxTreeChanges
    /\ \E f \in TreeFiles :
         tree' = IF f \in tree THEN tree \ {f} ELSE tree \cup {f}
    /\ changes' = changes + 1
    /\ UNCHANGED <<locale, exclude, yielded, basedirs, locales, roots, stack,
                   filenames, wpc, strvars, cmdvars>>

WalkInit ==
    /\ locale \in SUBSET LocaleCodes
    /\ exclude \in SUBSET LocaleCodes
    /\ tree \in Trees(MaxTreeFiles)
    /\ yielded = {}
    /\ basedirs = {}
    /\ locales = {}
    /\ roots = <<>>
    /\ stack = <<>>
    /\ filenames = <<>>
    /\ changes = 0
    /\ wpc = "start"
    /\ StrIdle
    /\ CmdIdle

WalkNext ==
    \/ FindPoFilesStart
    \/ FindPoFilesRaise
    \/ WalkDir
    \/ YieldFile
    \/ SkipFile
    \/ FindPoFilesReturn
    \/ TreeChange

SpecWalk == WalkInit /\ [][WalkNext]_vars

---------------------------------------------------------------------------
(* Claims about the placeholder functions.                                 *)

\* C1: fix_translation(msgid, humanize_placeholders(msgid)) returns without
\* error and reproduces msgid, for every msgid built from literal text
\* (underscores included) and placeholders.
C1_RoundTrip ==
    (fpc = "done") => (~result.raised /\ result.value = msgid)

\* the matches of  (\s*)(__[\w]+?__)(\s*)  in t from index i on, in order
RECURSIVE TokensFrom(_, _)
TokensFrom(t, i) ==
    LET m == NextToken(t, i)
    IN  IF ~m.found THEN <<>>
        ELSE <<[start |-> m.start, end |-> m.end]>> \o TokensFrom(t, m.end + 1)

\* t with its n-th token match, and every later one, replaced by the
\* placeholder of the same rank; the text from the end of match n-1 on
RECURSIVE Stitch(_, _, _, _)
Stitch(t, toks, phs, n) ==
    LET from == IF n = 1 THEN 1 ELSE toks[n - 1].end + 1
    IN  IF n > Len(toks) THEN Slice(t, from, Len(t))
        ELSE Slice(t, from, toks[n].start - 1)
             \o phs[n].pre \o phs[n].ph \o phs[n].post
             \o Stitch(t, toks, phs, n + 1)

\* r is what replacing the tokens of t by the placeholders of m, rank by
\* rank, gives: an IndexError when t has more tokens than m has
\* placeholders, else t with each token match replaced
RestoredByRank(m, t, r) ==
    LET toks == TokensFrom(t, 1)
        phs  == findall_placeholders(m)
    IN  IF Len(toks) > Len(phs) THEN r.raised
        ELSE /\ ~r.raised
             /\ r.value = Stitch(t, toks, phs, 1)

\* C9: with T tokens in the translation and P placeholders in msgid,
\* restore_placeholders and fix_translation raise when T > P, and when
\* T <= P they return the translation (for fix_translation: after the
\* newline fixes) with its N-th token, and the whitespace around it,
\* replaced by the N-th placeholder of msgid and the whitespace captured
\* around it, whatever the token's text, every other character unchanged.
C9_PositionalRestore ==
    /\ (fpc = "translated") =>
         RestoredByRank(msgid, translation,
                        restore_placeholders(msgid, translation))
    /\ (fpc = "done") =>
         RestoredByRank(msgid, add_newlines(msgid, translation), result)

\* two tokens, neither named like the placeholder it gets, restored from a
\* msgid with two different placeholders
C9_Witness ==
    /\ fpc = "done"
    /\ ~result.raised
    /\ Len(TokensFrom(translation, 1)) = 2
    /\ Len(findall_placeholders(msgid)) = 2
    /\ findall_placeholders(msgid)[1].ph # findall_placeholders(msgid)[2].ph
    /\ humanize_placeholders(msgid) # translation

\* C10: whenever fix_translation returns, its result starts with a newline
\* if msgid does and ends with a newline if msgid does.
C10_NewlinesKept ==
    (fpc = "done" /\ ~result.raised) =>
        /\ StartsWithNL(msgid) => StartsWithNL(result.value)
        /\ EndsWithNL(msgid) => EndsWithNL(result.value)

---------------------------------------------------------------------------
(* Claims about translate_file and handle.                                 *)

HasPlural(entry) == entry.msgid_plural # <<>>

\* the number of strings extracted for one entry
StringsOf(entry) ==
    IF ~need_translate(skip_translated, entry) THEN 0
    ELSE IF HasPlural(entry) THEN 2 ELSE 1

\* the number of strings extracted for the entries before entry i
RECURSIVE StringsBefore(_, _)
StringsBefore(entries, i) ==
    IF i <= 1 THEN 0
    ELSE StringsBefore(entries, i - 1) + StringsOf(entries[i - 1])

\* N: entries that need translation; M: those of them with a plural form
CountN(entries) ==
    Cardinality({i \in DOMAIN entries :
                    need_translate(skip_translated, entries[i])})
CountM(entries) ==
    Cardinality({i \in DOMAIN entries :
                    /\ need_translate(skip_translated, entries[i])
                    /\ HasPlural(entries[i])})

UpdateCalled == cur >= 1 /\ hist.updates[cur] = 1 /\ pc \in {"updated", "raised"}

\* update_translations began entry i, an entry it reached, with the cursor
\* at the index where get_strings_to_translate put the entry's strings
Synchronized(before, i) ==
    LET p == StringsBefore(before, i) + 1
    IN  /\ upd.first[i] = p - 1
        /\ need_translate(skip_translated, before[i]) =>
             /\ strings[p] = humanize_placeholders(before[i].msgid)
             /\ HasPlural(before[i]) =>
                  strings[p + 1] = humanize_placeholders(before[i].msgid_plural)

\* entry i holds the translations found at the indexes of its strings
Applied(before, i) ==
    LET p == StringsBefore(before, i) + 1
    IN  IF HasPlural(before[i])
        THEN /\ po[i].msgstr_plural[0] =
                  fix_translation(before[i].msgid, translated_strings[p]).value
             /\ \A k \in DOMAIN po[i].msgstr_plural \ {0} :
                  po[i].msgstr_plural[k] =
                    fix_translation(before[i].msgid_plural,
                                    translated_strings[p + 1]).value
        ELSE po[i].msgstr =
               fix_translation(before[i].msgid, translated_strings[p]).value

\* update_translations stopped at the entry after the last one it
\* completed: the translation the cursor is at is one of that entry's and
\* fix_translation raises on it
Aborted(before) ==
    LET i   == upd.completed + 1
        c   == upd.cursor
        src == IF c = upd.first[i] + 1 THEN before[i].msgid
               ELSE before[i].msgid_plural
    IN  /\ i \in DOMAIN before
        /\ need_translate(skip_translated, before[i])
        /\ c \in (upd.first[i] + 1) .. (upd.first[i] + StringsOf(before[i]))
        /\ c <= Len(translated_strings)
        /\ fix_translation(src, translated_strings[c]).raised

\* C2 as stated: given a translation list as long as the list of strings
\* sent, update_translations consumes exactly N + M translations, none
\* left unconsumed.
C2_Original ==
    (UpdateCalled /\ Len(translated_strings) = Len(strings)) =>
        upd.cursor = CountN(hist.atload) + CountM(hist.atload)

\* C2 as amended: get_strings_to_translate returns N + M strings.  Given a
\* list of that length, update_translations, though it changes entries
\* while it iterates, begins every entry it reaches with the cursor at the
\* index of that entry's strings, and every entry it completes holds the
\* translations found at those indexes.  It ends in one of two ways: it
\* returns, all entries completed and all N + M translations consumed; or
\* fix_translation raises IndexError on a translation, and then the cursor
\* stands at that translation, one of the entry after the last completed
\* one, and the translations after it are not consumed.  It never runs
\* out of translations.
C2_OrderAndCount ==
    /\ (pc = "extracted") =>
           Len(strings) = CountN(po) + CountM(po)
    /\ (UpdateCalled /\ Len(translated_strings) = Len(strings)) =>
         LET before == hist.atload
             n      == CountN(before) + CountM(before)
         IN  /\ Len(strings) = n
             /\ \A i \in DOMAIN upd.first : Synchronized(before, i)
             /\ \A i \in 1 .. upd.completed :
                  need_translate(skip_translated, before[i]) =>
                    Applied(before, i)
             /\ IF pc = "updated"
                THEN /\ upd.exc = "none"
                     /\ upd.completed = Len(before)
                     /\ upd.cursor = n
                ELSE /\ upd.exc = "IndexError"
                     /\ Aborted(before)

\* Three translations for a singular entry and a plural one; the first is
\* applied, fix_translation raises on the second, the third is not
\* consumed.
C2_Witness ==
    /\ pc = "raised"
    /\ hist.failed = "update"
    /\ Len(translated_strings) = Len(strings)
    /\ Len(strings) = 3
    /\ Len(hist.atload) = 2
    /\ HasPlural(hist.atload[2])
    /\ upd.completed = 1
    /\ upd.cursor = 2
    /\ po[1] # hist.atload[1]

\* what C3 takes need_translate to exclude
ExcludedByClaim(entry) ==
    skip_translated /\ translated(entry) /\ ~entry.obsolete

\* C3: with skip_translated an entry that is translated and not obsolete
\* is left out of the extraction and of the re-application, every other
\* entry is taken; without skip_translated every entry is taken.
C3_NeedTranslate ==
    /\ (pc = "extracted") =>
         /\ \A i \in DOMAIN po :
              need_translate(skip_translated, po[i]) = ~ExcludedByClaim(po[i])
         /\ Len(strings) =
              Cardinality({i \in DOMAIN po : ~ExcludedByClaim(po[i])})
              + Cardinality({i \in DOMAIN po :
                               ~ExcludedByClaim(po[i]) /\ HasPlural(po[i])})
    /\ (pc = "updated") =>
         \A i \in DOMAIN po :
              ExcludedByClaim(hist.atload[i]) => po[i] = hist.atload[i]

\* C4: a catalog is saved only when the backend returned as many
\* translations as strings were sent; with fewer or more, translate_file
\* raises and saves nothing.
C4_LengthMismatchRaises ==
    (cur >= 1 /\ hist.calls[cur] = 1 /\ hist.failed # "backend"
       /\ pc \in {"updated", "loop", "done", "raised"}
       /\ Len(translated_strings) # Len(strings)) =>
        (pc = "raised" /\ hist.saves[cur] = 0)

\* the entries whose iteration in update_translations ran to its end
Processed(i) ==
    /\ i <= upd.completed
    /\ need_translate(skip_translated, hist.atload[i])

\* the cursor after entry i of the entries update_translations reached
CursorAfter(i) ==
    IF i < Len(upd.first) THEN upd.first[i + 1] ELSE upd.cursor

\* C6: a processed entry with a plural form has consumed two consecutive
\* translations t1, t2: form 0 is fix_translation(msgid, t1), every other
\* form present is fix_translation(msgid_plural, t2), no form other than 0
\* is added or removed and msgstr is as before; a processed entry without
\* one has consumed one translation t: msgstr is fix_translation(msgid, t)
\* and msgstr_plural is as before.
C6_PluralForms ==
    UpdateCalled =>
      \A i \in DOMAIN hist.atload :
        Processed(i) =>
          LET old == hist.atload[i]
              c   == upd.first[i]
          IN  IF HasPlural(old)
              THEN /\ CursorAfter(i) = c + 2
                   /\ DOMAIN po[i].msgstr_plural \ {0}
                        = DOMAIN old.msgstr_plural \ {0}
                   /\ 0 \in DOMAIN po[i].msgstr_plural
                   /\ po[i].msgstr_plural[0] =
                        fix_translation(old.msgid, translated_strings[c + 1]).value
                   /\ \A k \in DOMAIN po[i].msgstr_plural \ {0} :
                        po[i].msgstr_plural[k] =
                          fix_translation(old.msgid_plural,
                                          translated_strings[c + 2]).value
                   /\ po[i].msgstr = old.msgstr
              ELSE /\ CursorAfter(i) = c + 1
                   /\ po[i].msgstr =
                        fix_translation(old.msgid, translated_strings[c + 1]).value
                   /\ po[i].msgstr_plural = old.msgstr_plural

\* an entry with three plural forms updated after a singular one: forms 1
\* and 2 hold the second translation, form 0 the first
C6_Witness ==
    /\ pc = "updated"
    /\ Len(po) = 2
    /\ HasPlural(po[2])
    /\ upd.first[2] = 1
    /\ DOMAIN po[2].msgstr_plural = {0, 1, 2}
    /\ po[2].msgstr_plural[1] = po[2].msgstr_plural[2]
    /\ po[2].msgstr_plural[0] # po[2].msgstr_plural[1]
    /\ po[2].msgstr_plural[1] # <<>>

\* the number of times 'fuzzy' occurs in entry.flags
FuzzyCount(entry) ==
    Cardinality({k \in DOMAIN entry.flags : entry.flags[k] = "fuzzy"})

AtMostOnceMore(new, old) ==
    FuzzyCount(new) <= (IF FuzzyCount(old) > 1 THEN FuzzyCount(old) ELSE 1)

\* C7: with set_fuzzy every processed entry is flagged fuzzy, and no run,
\* the first or a later one, makes an entry carry 'fuzzy' more than once;
\* without set_fuzzy the flags of every entry stay as they were.
C7_FuzzyFlag ==
    /\ UpdateCalled =>
         \A i \in DOMAIN po :
           /\ (set_fuzzy /\ Processed(i)) => IsFuzzy(po[i])
           /\ AtMostOnceMore(po[i], hist.atload[i])
           /\ ~set_fuzzy => po[i].flags = hist.atload[i].flags
    /\ (pc # "idle") =>
         \A f \in Files : \A i \in DOMAIN disk[f] :
           /\ AtMostOnceMore(disk[f][i], hist.atstart[f][i])
           /\ ~set_fuzzy => disk[f][i].flags = hist.atstart[f][i].flags

\* the second run has updated an entry the first run flagged
C7_Witness ==
    /\ runs = 2
    /\ pc = "updated"
    /\ set_fuzzy
    /\ \E i \in DOMAIN po :
         /\ ~IsFuzzy(hist.atstart[cur][i])
         /\ IsFuzzy(hist.atload[i])
         /\ FuzzyCount(po[i]) = 1

Untouched(f) ==
    /\ hist.loads[f] = 0 /\ hist.calls[f] = 0
    /\ hist.updates[f] = 0 /\ hist.saves[f] = 0
    /\ disk[f] = hist.atrun[f]

Completed(f) ==
    /\ hist.loads[f] = 1 /\ hist.calls[f] = 1
    /\ hist.updates[f] = 1 /\ hist.saves[f] = 1

\* C8: files are processed one after the other, each loaded, sent to the
\* backend once, updated and saved; when the backend call or the update of
\* a file raises, that file is not saved and holds what it held when it
\* was loaded, the backend is not called again, no later file is loaded,
\* translated or saved, the files before it stay saved, and the run is
\* over.
C8_FailureAborts ==
    (pc # "idle") =>
      /\ \A f \in Files :
           /\ f < cur => Completed(f)
           /\ f > cur => Untouched(f)
           /\ f = cur =>
                /\ hist.loads[f] = 1
                /\ hist.calls[f] <= 1
                /\ hist.updates[f] <= hist.calls[f]
                /\ hist.saves[f] <= hist.updates[f]
                /\ hist.saves[f] = 0 => disk[f] = hist.atload
      /\ (pc = "raised") =>
           /\ cur >= 1
           /\ hist.failed \in {"backend", "update"}
           /\ hist.calls[cur] = 1
           /\ hist.saves[cur] = 0
           /\ disk[cur] = hist.atload
           /\ ~ENABLED Next
      /\ (pc # "raised") => hist.failed = "none"

\* the update of the second file raised after it had changed an entry in
\* memory; the first file is saved, the second is as it was
C8_Witness ==
    /\ pc = "raised"
    /\ cur = 2
    /\ hist.failed = "update"
    /\ po # hist.atload
    /\ disk[2] = hist.atload
    /\ disk[1] # hist.atrun[1]

---------------------------------------------------------------------------
(* Claims about find_po_files.                                             *)

\* os.walk(os.path.join(basedir, l, 'LC_MESSAGES')) reaches f
UnderMessagesDir(f, basedir, l) ==
    /\ f.base = basedir
    /\ Len(f.dir) >= 2
    /\ f.dir[1] = l
    /\ f.dir[2] = "LC_MESSAGES"

\* C5: find_po_files never yields a file below <basedir>/<x>/ for an
\* excluded locale x, and with a non-empty include list it yields only
\* files below <basedir>/<l>/LC_MESSAGES/ for l included and not excluded.
C5_ExcludeSubtracted ==
    \A f \in yielded :
      /\ Len(f.dir) >= 1 => f.dir[1] \notin exclude
      /\ locale # {} =>
           \E l \in locale \ exclude : UnderMessagesDir(f, f.base, l)

============================================================================
